---- MODULE Spec2Model ----
(***************************************************************************)
(* Model of app.py, the Streamlit dashboard "Dasbor Harmoni Finansial".    *)
(*                                                                         *)
(* The remote spreadsheet holds two worksheets, "Transaksi" and "Aset".    *)
(* Each script run (one render pass) calls load_data(), which is memoized  *)
(* by st.cache_data(ttl=300), passes the global empty-data guard, renders  *)
(* the metrics, handles the two forms and shows the paginated raw tables.  *)
(*                                                                         *)
(* A worksheet is the sequence get_all_values() returns: the header row    *)
(* followed by the data rows.  A cell of the "Aset" worksheet and the      *)
(* "Jumlah" cell of a "Transaksi" row is a sequence of one-character       *)
(* strings, so that pd.to_numeric and gspread's find act on its text.      *)
(* A DataFrame is a record [columns, data].                                *)
(***************************************************************************)
EXTENDS Integers, Sequences, FiniteSets, TLC

VARIABLES
    sheetTransaksi,  \* remote worksheet "Transaksi": header row, then data rows
    sheetAset,       \* remote worksheet "Aset": header row, then data rows
    clientCached,    \* st.cache_resource holds the gspread client of get_client
    cache,           \* st.cache_data entry of load_data: <<>> or <<[t, a]>>
    cacheAge,        \* seconds since the entry of load_data was computed
    pc,              \* position of the script run
    df_transaksi,    \* the run's global df_transaksi
    df_aset,         \* the run's global df_aset
    halt,            \* why the run was stopped by st.stop(): "none" while it runs
    out,             \* what the last step of the run took as input and rendered
    calls,           \* the store client calls the last step of the run made, in order
    pg,              \* arguments of show_dataframe_paginated: [df, page_size, entry]
    lastLoad,        \* history: the tables the previous load_data() call returned
    cleared,         \* history: st.cache_data.clear() ran since that call
    written          \* history: the successful write no load_data() call followed

storeVars == <<sheetTransaksi, sheetAset>>
procVars  == <<clientCached, cache, cacheAge>>
runVars   == <<pc, df_transaksi, df_aset, halt, out, calls, pg>>
histVars  == <<lastLoad, cleared, written>>
vars      == <<storeVars, procVars, runVars, histVars>>

(***************************************************************************)
(* Text.                                                                   *)
(***************************************************************************)
Digits == <<"0", "1", "2", "3", "4", "5", "6", "7", "8", "9">>

IsDigit(c) == \E d \in 1..10 : Digits[d] = c

DigitVal(c) == (CHOOSE d \in 1..10 : Digits[d] = c) - 1

\* Python's str(n) of an int n >= 0
RECURSIVE str(_)
str(n) == IF n < 10 THEN <<Digits[n + 1]>>
          ELSE Append(str(n \div 10), Digits[(n % 10) + 1])

\* the value of a run of decimal digits
RECURSIVE DecVal(_)
DecVal(s) == IF s = <<>> THEN 0
             ELSE 10 * DecVal(SubSeq(s, 1, Len(s) - 1)) + DigitVal(s[Len(s)])

Tabungan == <<"T", "a", "b", "u", "n", "g", "a", "n">>
Saham    == <<"S", "a", "h", "a", "m">>
Emas     == <<"E", "m", "a", "s">>
Properti == <<"P", "r", "o", "p", "e", "r", "t", "i">>
Gold     == <<"G", "o", "l", "d">>
Kas      == <<"K", "a", "s">>
Perak    == <<"P", "e", "r", "a", "k">>

NamaAset      == <<"N", "a", "m", "a", " ", "A", "s", "e", "t">>
JenisAset     == <<"J", "e", "n", "i", "s", " ", "A", "s", "e", "t">>
NilaiSekarang == <<"N", "i", "l", "a", "i", " ", "S", "e", "k", "a", "r", "a", "n", "g">>

HeaderTransaksi == <<"Tanggal", "Jenis", "Kategori", "Deskripsi", "Jumlah">>
HeaderAset      == <<NamaAset, JenisAset, NilaiSekarang>>

(***************************************************************************)
(* DataFrames.                                                             *)
(***************************************************************************)
\* pd.DataFrame()
EmptyDataFrame == [columns |-> <<>>, data |-> <<>>]

\* pd.DataFrame(records, columns=headers)
DataFrame(records, headers) == [columns |-> headers, data |-> records]

\* df.empty
empty(df) == Len(df.data) = 0 \/ Len(df.columns) = 0

HasColumn(df, kolom) == \E i \in 1..Len(df.columns) : df.columns[i] = kolom

Col(df, kolom) == CHOOSE i \in 1..Len(df.columns) : df.columns[i] = kolom

\* records[-limit_rows:]
Tail_(records, n) ==
    IF Len(records) <= n THEN records
    ELSE SubSeq(records, Len(records) - n + 1, Len(records))

limit_rows == 500

\* pd.to_numeric(cell, errors="coerce") of one cell whose text is made of digits,
\* "," and letters: <<v>> for a run of digits, <<>> (NaN) for anything else
to_numeric(cell) ==
    IF cell # <<>> /\ \A i \in 1..Len(cell) : IsDigit(cell[i])
    THEN <<DecVal(cell)>>
    ELSE <<>>

\* .fillna(0)
fillna0(x) == IF x = <<>> THEN 0 ELSE x[1]

\* df[kolom] = pd.to_numeric(df[kolom], errors="coerce").fillna(0)
SetNumeric(df, kolom) ==
    LET k == Col(df, kolom) IN
    [df EXCEPT !.data =
        [r \in 1..Len(df.data) |->
            [df.data[r] EXCEPT ![k] = fillna0(to_numeric(df.data[r][k]))]]]

\* the loop body of load_data for one (kolom, df)
Coerce(df, kolom) ==
    IF ~empty(df) /\ HasColumn(df, kolom) THEN SetNumeric(df, kolom) ELSE df

(***************************************************************************)
(* Store client.                                                           *)
(***************************************************************************)
\* how get_client ends when st.cache_resource holds no client yet: the client,
\* st.stop() for missing secrets, or show_error_page for an exception
ClientOutcomes == {"ok", "no_secrets", "Exception"}

\* how client.open(NAMA_SHEET).worksheet(nama_worksheet) ends in get_sheet:
\* the worksheet, or one of the three except clauses (get_sheet returns None)
SheetOutcomes == {"ok", "WorksheetNotFound", "SpreadsheetNotFound", "Exception"}

\* how a read ends in get_data_as_dataframe: as get_sheet ended, or with
\* sheet.get_all_values() raising ("FetchFailed")
ReadOutcomes == SheetOutcomes \cup {"FetchFailed"}

\* get_data_as_dataframe of a worksheet whose get_all_values() is `values`
get_data_as_dataframe(values, outcome) ==
    IF outcome # "ok" THEN EmptyDataFrame
    ELSE IF values # <<>>
         THEN DataFrame(Tail_(Tail(values), limit_rows), Head(values))
         ELSE EmptyDataFrame

\* the store client calls get_data_as_dataframe makes
ReadCalls(outcome) ==
    IF outcome \in {"ok", "FetchFailed"}
    THEN <<"get_sheet", "get_all_values">>
    ELSE <<"get_sheet">>

\* load_data with one try around both reads: a failed read empties both tables
load_data_AllOrNothing(valuesT, outT, valuesA, outA) ==
    IF outT = "ok" /\ outA = "ok"
    THEN [t |-> Coerce(get_data_as_dataframe(valuesT, outT), "Jumlah"),
          a |-> Coerce(get_data_as_dataframe(valuesA, outA), NilaiSekarang)]
    ELSE [t |-> EmptyDataFrame, a |-> EmptyDataFrame]

\* the body of load_data
load_data(valuesT, outT, valuesA, outA) ==
    [t |-> Coerce(get_data_as_dataframe(valuesT, outT), "Jumlah"),
     a |-> Coerce(get_data_as_dataframe(valuesA, outA), NilaiSekarang)]

\* gspread's Worksheet.find(query): the first cell, row by row and left to right,
\* whose text is the query, as <<row, col>>; <<>> (None) when there is none
find(values, query) ==
    LET width == IF values = <<>> THEN 0 ELSE Len(values[1])
        hits  == {rc \in (1..Len(values)) \X (1..width) :
                    values[rc[1]][rc[2]] = query}
    IN IF hits = {} THEN <<>>
       ELSE CHOOSE rc \in hits :
                \A o \in hits : rc[1] < o[1] \/ (rc[1] = o[1] /\ rc[2] <= o[2])

\* gspread's Worksheet.update_cell(row, col, value) of an int value
update_cell(values, row, col, value) ==
    [values EXCEPT ![row] = [@ EXCEPT ![col] = str(value)]]

\* gspread's Worksheet.append_row(row)
append_row(values, row) == Append(values, row)


(***************************************************************************)
(* Metrics and pagination.                                                 *)
(***************************************************************************)
\* df[df[kolom] == nilai][jumlah].sum() over the rows whose kolom cell is in `nilai`
RECURSIVE SumRows(_, _, _, _)
SumRows(data, k, nilai, j) ==
    IF data = <<>> THEN 0
    ELSE (IF Head(data)[k] \in nilai THEN Head(data)[j] ELSE 0)
         + SumRows(Tail(data), k, nilai, j)

SumWhere(df, kolom, nilai, jumlah) ==
    SumRows(df.data, Col(df, kolom), nilai, Col(df, jumlah))

NoMetrik == [kind |-> "none", total_pemasukan |-> 0, total_pengeluaran |-> 0,
             total_aset |-> 0, total_tabungan |-> 0, total_investasi |-> 0]

\* hitung_metrik with total_investasi summing "Saham" alone
hitung_metrik_SahamOnly(dfT, dfA) ==
    IF ~(HasColumn(dfT, "Jenis") /\ HasColumn(dfT, "Jumlah")
         /\ HasColumn(dfA, JenisAset) /\ HasColumn(dfA, NilaiSekarang))
    THEN [NoMetrik EXCEPT !.kind = "KeyError"]
    ELSE LET total_tabungan  == SumWhere(dfA, JenisAset, {Tabungan}, NilaiSekarang)
             total_investasi == SumWhere(dfA, JenisAset, {Saham}, NilaiSekarang)
         IN [kind              |-> "metrics",
             total_pemasukan   |-> SumWhere(dfT, "Jenis", {"Pemasukan"}, "Jumlah"),
             total_pengeluaran |-> SumWhere(dfT, "Jenis", {"Pengeluaran"}, "Jumlah"),
             total_aset        |-> total_tabungan + total_investasi,
             total_tabungan    |-> total_tabungan,
             total_investasi   |-> total_investasi]

\* hitung_metrik: a KeyError when a column it reads is missing
hitung_metrik(dfT, dfA) ==
    IF ~(HasColumn(dfT, "Jenis") /\ HasColumn(dfT, "Jumlah")
         /\ HasColumn(dfA, JenisAset) /\ HasColumn(dfA, NilaiSekarang))
    THEN [NoMetrik EXCEPT !.kind = "KeyError"]
    ELSE LET total_tabungan  == SumWhere(dfA, JenisAset, {Tabungan}, NilaiSekarang)
             total_investasi == SumWhere(dfA, JenisAset, {Saham, Emas}, NilaiSekarang)
         IN [kind              |-> "metrics",
             total_pemasukan   |-> SumWhere(dfT, "Jenis", {"Pemasukan"}, "Jumlah"),
             total_pengeluaran |-> SumWhere(dfT, "Jenis", {"Pengeluaran"}, "Jumlah"),
             total_aset        |-> total_tabungan + total_investasi,
             total_tabungan    |-> total_tabungan,
             total_investasi   |-> total_investasi]

\* the metrics block: the four st.metric of the sums, st.error when hitung_metrik
\* raised, st.warning when a table is empty
RenderMetrik(dfT, dfA) ==
    IF ~empty(dfT) /\ ~empty(dfA)
    THEN LET m == hitung_metrik(dfT, dfA)
         IN IF m.kind = "metrics" THEN m ELSE [NoMetrik EXCEPT !.kind = "error"]
    ELSE [NoMetrik EXCEPT !.kind = "warning"]

page_size_default == 20

\* st.number_input(label, min_value, max_value, value) after the user typed `entry`
number_input(min_value, max_value, entry) ==
    IF entry < min_value THEN min_value
    ELSE IF entry > max_value THEN max_value ELSE entry

NoView == [kind |-> "hidden", total_pages |-> 0, page |-> 0, rows |-> <<>>,
           first |-> 0, last |-> 0, total_rows |-> 0]

\* show_dataframe_paginated with total_pages = total_rows // page_size + 1
show_dataframe_paginated_FloorPages(df, page_size, entry) ==
    LET total_rows == Len(df.data) IN
    IF total_rows = 0 THEN [NoView EXCEPT !.kind = "no_data"]
    ELSE LET total_pages == (total_rows \div page_size) + 1
             page        == number_input(1, total_pages, entry)
             start_idx   == (page - 1) * page_size
             end_idx     == start_idx + page_size
             stop        == IF end_idx < total_rows THEN end_idx ELSE total_rows
         IN [kind        |-> "page",
             total_pages |-> total_pages,
             page        |-> page,
             rows        |-> SubSeq(df.data, start_idx + 1, stop),
             first       |-> start_idx + 1,
             last        |-> stop,
             total_rows  |-> total_rows]


\* show_dataframe_paginated(df, page_size) with `entry` typed into "Halaman"
show_dataframe_paginated(df, page_size, entry) ==
    LET total_rows == Len(df.data) IN
    IF total_rows = 0 THEN [NoView EXCEPT !.kind = "no_data"]
    ELSE LET total_pages == ((total_rows - 1) \div page_size) + 1
             page        == number_input(1, total_pages, entry)
             start_idx   == (page - 1) * page_size
             end_idx     == start_idx + page_size
             stop        == IF end_idx < total_rows THEN end_idx ELSE total_rows
         IN [kind        |-> "page",
             total_pages |-> total_pages,
             page        |-> page,
             rows        |-> SubSeq(df.data, start_idx + 1, stop),
             first       |-> start_idx + 1,
             last        |-> stop,
             total_rows  |-> total_rows]


(***************************************************************************)
(* Bounds and inputs.                                                      *)
(***************************************************************************)
\* data rows the "Transaksi" worksheet may grow to
MaxRows == 2

\* ttl of st.cache_data on load_data
TTL == 300

\* the time that passes between two script runs, when it passes
TickSeconds == TTL \div 2

Tanggal == "2024-01-01"

JenisTransaksi == {"Pemasukan", "Pengeluaran"}

\* the first option of the "Kategori" selectbox for each jenis
Kategori(jenis) == IF jenis = "Pemasukan" THEN "Gaji" ELSE "Konsumsi"

Deskripsis == {"", "gaji"}

Jumlahs == {0, 5}

NilaiBarus == {0, 7}

InitTransaksi ==
    {<<HeaderTransaksi>>,
     <<HeaderTransaksi, <<Tanggal, "Pengeluaran", "Konsumsi", "makan", <<"4">>>>>>}

InitAset ==
    {<<HeaderAset>>,
     <<HeaderAset, <<Kas, Tabungan, <<"2">>>>>>,
     <<HeaderAset, <<Gold, Emas, <<"3">>>>, <<Emas, Emas, <<"6">>>>>>}

NoOut == [step |-> "none"]

NoWrite == [op |-> "none", row |-> <<>>, aset |-> <<>>, nilai |-> 0, cell |-> <<>>]

NoPg == [df |-> EmptyDataFrame, page_size |-> page_size_default, entry |-> 1]

Init ==
    /\ sheetTransaksi \in InitTransaksi
    /\ sheetAset \in InitAset
    /\ clientCached = FALSE
    /\ cache = <<>>
    /\ cacheAge = 0
    /\ pc = "idle"
    /\ df_transaksi = EmptyDataFrame
    /\ df_aset = EmptyDataFrame
    /\ halt = "none"
    /\ out = NoOut
    /\ calls = <<>>
    /\ pg = NoPg
    /\ lastLoad = <<>>
    /\ cleared = FALSE
    /\ written = <<>>

(***************************************************************************)
(* The script run.                                                         *)
(***************************************************************************)
\* load_data without its @st.cache_data decorator
CacheHit_Off == FALSE

\* st.cache_data returns the memoized value of load_data
CacheHit == cache # <<>> /\ cacheAge < TTL

\* Lines 87-99: df_transaksi, df_aset = load_data().  On a miss load_data runs:
\* get_client may stop the script; each read ends in one of ReadOutcomes.
LoadData ==
    /\ pc = "idle"
    /\ \E c \in ClientOutcomes, outT \in ReadOutcomes, outA \in ReadOutcomes :
         IF CacheHit
         THEN /\ c = "ok" /\ outT = "ok" /\ outA = "ok"
              /\ df_transaksi' = cache[1].t
              /\ df_aset' = cache[1].a
              /\ out' = [step |-> "load_data", hit |-> TRUE, t |-> "none", a |-> "none",
                         after |-> written]
              /\ calls' = <<>>
              /\ pc' = "guard"
              /\ lastLoad' = cache
              /\ cleared' = FALSE
              /\ written' = <<>>
              /\ UNCHANGED <<procVars, halt>>
         ELSE IF ~clientCached /\ c # "ok"
         THEN /\ outT = "ok" /\ outA = "ok"
              /\ halt' = "credential"
              /\ out' = [step |-> "get_client"]
              /\ calls' = <<>>
              /\ pc' = "stopped"
              /\ UNCHANGED <<procVars, df_transaksi, df_aset, lastLoad, cleared, written>>
         ELSE LET r == load_data(sheetTransaksi, outT, sheetAset, outA) IN
              /\ clientCached => c = "ok"
              /\ clientCached' = TRUE
              /\ cache' = <<r>>
              /\ cacheAge' = 0
              /\ df_transaksi' = r.t
              /\ df_aset' = r.a
              /\ out' = [step |-> "load_data", hit |-> FALSE, t |-> outT, a |-> outA,
                         after |-> written]
              /\ calls' = ReadCalls(outT) \o ReadCalls(outA)
              /\ pc' = "guard"
              /\ lastLoad' = <<r>>
              /\ cleared' = FALSE
              /\ written' = <<>>
              /\ UNCHANGED halt
    /\ UNCHANGED <<storeVars, pg>>

\* the guard with "or" for "and"
DataKosong_Either(dfT, dfA) == empty(dfT) \/ empty(dfA)

\* Line 101: df_transaksi.empty and df_aset.empty
DataKosong(dfT, dfA) == empty(dfT) /\ empty(dfA)

\* Lines 25-28 and 101-102: the global guard calls show_error_page, whose st.stop()
\* ends the script run
Guard ==
    /\ pc = "guard"
    /\ IF DataKosong(df_transaksi, df_aset)
       THEN halt' = "empty" /\ pc' = "stopped"
       ELSE halt' = halt /\ pc' = "metrics"
    /\ out' = [step |-> "guard"]
    /\ calls' = <<>>
    /\ UNCHANGED <<storeVars, procVars, histVars, df_transaksi, df_aset, pg>>

\* Lines 131-144
Metrics ==
    /\ pc = "metrics"
    /\ out' = [step |-> "metrics", metrik |-> RenderMetrik(df_transaksi, df_aset)]
    /\ calls' = <<>>
    /\ pc' = "form_transaksi"
    /\ UNCHANGED <<storeVars, procVars, histVars, df_transaksi, df_aset, halt, pg>>

\* get_sheet as a form handler sees it: "stop" when get_client stopped the script,
\* else how opening the worksheet ended
get_sheet(c, opened) == IF ~clientCached /\ c # "ok" THEN "stop" ELSE opened

\* the submit handler of form_transaksi without its check of deskripsi
submit_transaksi_AnyDeskripsi(jenis, kategori, deskripsi, jumlah, sheet, raised) ==
    LET row  == <<Tanggal, jenis, kategori, deskripsi, str(jumlah)>>
        keep == [msg |-> "", calls |-> <<>>, sheet |-> sheetTransaksi,
                 clear |-> FALSE, write |-> <<>>]
    IN
    IF jumlah > 0
    THEN IF sheet = "ok"
         THEN IF raised
              THEN [keep EXCEPT !.msg = "Gagal menyimpan transaksi ke Google Sheets.",
                                !.calls = <<"get_sheet", "append_row">>]
              ELSE [keep EXCEPT !.msg = "Transaksi berhasil disimpan!",
                                !.calls = <<"get_sheet", "append_row">>,
                                !.sheet = append_row(sheetTransaksi, row),
                                !.clear = TRUE,
                                !.write = <<[NoWrite EXCEPT !.op = "append", !.row = row,
                                                            !.nilai = jumlah]>>]
         ELSE [keep EXCEPT !.msg = "Worksheet 'Transaksi' tidak ditemukan.",
                           !.calls = <<"get_sheet">>]
    ELSE [keep EXCEPT !.msg = "Harap isi deskripsi dan jumlah lebih dari 0."]

\* the submit handler of form_transaksi (lines 204-218), given how get_sheet and
\* append_row ended: what it does to the store, the cache and the page
submit_transaksi(jenis, kategori, deskripsi, jumlah, sheet, raised) ==
    LET row  == <<Tanggal, jenis, kategori, deskripsi, str(jumlah)>>
        keep == [msg |-> "", calls |-> <<>>, sheet |-> sheetTransaksi,
                 clear |-> FALSE, write |-> <<>>]
    IN
    IF jumlah > 0 /\ deskripsi # ""
    THEN IF sheet = "ok"
         THEN IF raised
              THEN [keep EXCEPT !.msg = "Gagal menyimpan transaksi ke Google Sheets.",
                                !.calls = <<"get_sheet", "append_row">>]
              ELSE [keep EXCEPT !.msg = "Transaksi berhasil disimpan!",
                                !.calls = <<"get_sheet", "append_row">>,
                                !.sheet = append_row(sheetTransaksi, row),
                                !.clear = TRUE,
                                !.write = <<[NoWrite EXCEPT !.op = "append", !.row = row,
                                                            !.nilai = jumlah]>>]
         ELSE [keep EXCEPT !.msg = "Worksheet 'Transaksi' tidak ditemukan.",
                           !.calls = <<"get_sheet">>]
    ELSE [keep EXCEPT !.msg = "Harap isi deskripsi dan jumlah lebih dari 0."]

\* Lines 190-218: form_transaksi and its submit handler
FormTransaksi ==
    /\ pc = "form_transaksi"
    /\ \E submitted \in BOOLEAN, jenis \in JenisTransaksi, deskripsi \in Deskripsis,
          jumlah \in Jumlahs, c \in ClientOutcomes, opened \in SheetOutcomes,
          raised \in BOOLEAN :
         LET kategori == Kategori(jenis)
             sheet    == get_sheet(c, opened)
             f        == [step |-> "form_transaksi", submitted |-> submitted,
                          jenis |-> jenis, kategori |-> kategori,
                          deskripsi |-> deskripsi, jumlah |-> jumlah, msg |-> ""]
             valid    == jumlah > 0 /\ deskripsi # ""
             h        == submit_transaksi(jenis, kategori, deskripsi, jumlah, sheet, raised)
         IN
         \* one choice of the outcomes for each path through the handler
         /\ clientCached => c = "ok"
         /\ ~(submitted /\ valid) => (c = "ok" /\ opened = "ok")
         /\ ~(submitted /\ valid /\ sheet = "ok") => ~raised
         /\ ~submitted => (jenis = "Pemasukan" /\ deskripsi = "" /\ jumlah = 0)
         /\ IF ~submitted
            THEN /\ out' = f
                 /\ calls' = <<>>
                 /\ pc' = "form_update_aset"
                 /\ UNCHANGED <<storeVars, procVars, histVars, halt>>
            ELSE IF valid /\ sheet = "stop"
            THEN /\ out' = f
                 /\ calls' = <<>>
                 /\ halt' = "credential"
                 /\ pc' = "stopped"
                 /\ UNCHANGED <<storeVars, procVars, histVars>>
            ELSE /\ Len(h.sheet) - 1 <= MaxRows
                 /\ out' = [f EXCEPT !.msg = h.msg]
                 /\ calls' = h.calls
                 /\ sheetTransaksi' = h.sheet
                 /\ clientCached' = (clientCached \/ valid)
                 /\ cache' = IF h.clear THEN <<>> ELSE cache
                 /\ cacheAge' = IF h.clear THEN 0 ELSE cacheAge
                 /\ cleared' = (cleared \/ h.clear)
                 /\ written' = IF h.write # <<>> THEN h.write ELSE written
                 /\ pc' = "form_update_aset"
                 /\ UNCHANGED <<sheetAset, halt, lastLoad>>
    /\ UNCHANGED <<df_transaksi, df_aset, pg>>

\* df_aset["Nama Aset"].tolist()
aset_list(df) == {df.data[r][Col(df, NamaAset)] : r \in 1..Len(df.data)}

\* the submit handler of form_update_aset without its st.cache_data.clear()
submit_aset_NoClear(aset_dipilih, nilai_baru, sheet, raised) ==
    LET cell == find(sheetAset, aset_dipilih)
        keep == [msg |-> "", calls |-> <<>>, sheet |-> sheetAset,
                 clear |-> FALSE, write |-> <<>>]
    IN
    IF nilai_baru > 0
    THEN IF sheet = "ok"
         THEN IF cell # <<>>
              THEN IF raised
                   THEN [keep EXCEPT !.msg = "Gagal memperbarui nilai aset.",
                                     !.calls = <<"get_sheet", "find", "update_cell">>]
                   ELSE [keep EXCEPT !.msg = "Nilai aset berhasil diperbarui!",
                                     !.calls = <<"get_sheet", "find", "update_cell">>,
                                     !.sheet = update_cell(sheetAset, cell[1], 3, nilai_baru),
                                     !.clear = FALSE,
                                     !.write = <<[NoWrite EXCEPT !.op = "update",
                                                                 !.aset = aset_dipilih,
                                                                 !.nilai = nilai_baru,
                                                                 !.cell = cell]>>]
              ELSE [keep EXCEPT !.msg = "Aset tidak ditemukan di Google Sheet.",
                                !.calls = <<"get_sheet", "find">>]
         ELSE [keep EXCEPT !.msg = "Worksheet 'Aset' tidak ditemukan.",
                           !.calls = <<"get_sheet">>]
    ELSE [keep EXCEPT !.msg = "Nilai baru harus lebih dari 0."]

\* the submit handler of form_update_aset with nilai_baru >= 0 for nilai_baru > 0
submit_aset_ZeroAllowed(aset_dipilih, nilai_baru, sheet, raised) ==
    LET cell == find(sheetAset, aset_dipilih)
        keep == [msg |-> "", calls |-> <<>>, sheet |-> sheetAset,
                 clear |-> FALSE, write |-> <<>>]
    IN
    IF nilai_baru >= 0
    THEN IF sheet = "ok"
         THEN IF cell # <<>>
              THEN IF raised
                   THEN [keep EXCEPT !.msg = "Gagal memperbarui nilai aset.",
                                     !.calls = <<"get_sheet", "find", "update_cell">>]
                   ELSE [keep EXCEPT !.msg = "Nilai aset berhasil diperbarui!",
                                     !.calls = <<"get_sheet", "find", "update_cell">>,
                                     !.sheet = update_cell(sheetAset, cell[1], 3, nilai_baru),
                                     !.clear = TRUE,
                                     !.write = <<[NoWrite EXCEPT !.op = "update",
                                                                 !.aset = aset_dipilih,
                                                                 !.nilai = nilai_baru,
                                                                 !.cell = cell]>>]
              ELSE [keep EXCEPT !.msg = "Aset tidak ditemukan di Google Sheet.",
                                !.calls = <<"get_sheet", "find">>]
         ELSE [keep EXCEPT !.msg = "Worksheet 'Aset' tidak ditemukan.",
                           !.calls = <<"get_sheet">>]
    ELSE [keep EXCEPT !.msg = "Nilai baru harus lebih dari 0."]

\* the submit handler of form_update_aset (lines 229-247), given how get_sheet and
\* update_cell ended: what it does to the store, the cache and the page
submit_aset(aset_dipilih, nilai_baru, sheet, raised) ==
    LET cell == find(sheetAset, aset_dipilih)
        keep == [msg |-> "", calls |-> <<>>, sheet |-> sheetAset,
                 clear |-> FALSE, write |-> <<>>]
    IN
    IF nilai_baru > 0
    THEN IF sheet = "ok"
         THEN IF cell # <<>>
              THEN IF raised
                   THEN [keep EXCEPT !.msg = "Gagal memperbarui nilai aset.",
                                     !.calls = <<"get_sheet", "find", "update_cell">>]
                   ELSE [keep EXCEPT !.msg = "Nilai aset berhasil diperbarui!",
                                     !.calls = <<"get_sheet", "find", "update_cell">>,
                                     !.sheet = update_cell(sheetAset, cell[1], 3, nilai_baru),
                                     !.clear = TRUE,
                                     !.write = <<[NoWrite EXCEPT !.op = "update",
                                                                 !.aset = aset_dipilih,
                                                                 !.nilai = nilai_baru,
                                                                 !.cell = cell]>>]
              ELSE [keep EXCEPT !.msg = "Aset tidak ditemukan di Google Sheet.",
                                !.calls = <<"get_sheet", "find">>]
         ELSE [keep EXCEPT !.msg = "Worksheet 'Aset' tidak ditemukan.",
                           !.calls = <<"get_sheet">>]
    ELSE [keep EXCEPT !.msg = "Nilai baru harus lebih dari 0."]

\* Lines 220-249: form_update_aset and its submit handler
FormUpdateAset ==
    /\ pc = "form_update_aset"
    /\ IF empty(df_aset)
       THEN /\ out' = [step |-> "form_update_aset", rendered |-> FALSE,
                       submitted |-> FALSE, aset_dipilih |-> <<>>, nilai_baru |-> 0,
                       msg |-> "Tambahkan data aset di Google Sheet terlebih dahulu."]
            /\ calls' = <<>>
            /\ pc' = "raw"
            /\ UNCHANGED <<storeVars, procVars, histVars, halt>>
       ELSE \E submitted_aset \in BOOLEAN, aset_dipilih \in aset_list(df_aset),
               nilai_baru \in NilaiBarus, c \in ClientOutcomes,
               opened \in SheetOutcomes, raised \in BOOLEAN :
         LET sheet == get_sheet(c, opened)
             f     == [step |-> "form_update_aset", rendered |-> TRUE,
                       submitted |-> submitted_aset, aset_dipilih |-> aset_dipilih,
                       nilai_baru |-> nilai_baru, msg |-> ""]
             valid == nilai_baru > 0
             h     == submit_aset(aset_dipilih, nilai_baru, sheet, raised)
         IN
         \* one choice of the outcomes for each path through the handler
         /\ clientCached => c = "ok"
         /\ ~(submitted_aset /\ valid) => (c = "ok" /\ opened = "ok")
         /\ ~(submitted_aset /\ valid /\ sheet = "ok"
              /\ find(sheetAset, aset_dipilih) # <<>>) => ~raised
         /\ ~submitted_aset => nilai_baru = 0
         /\ IF ~submitted_aset
            THEN /\ out' = f
                 /\ calls' = <<>>
                 /\ pc' = "raw"
                 /\ UNCHANGED <<storeVars, procVars, histVars, halt>>
            ELSE IF valid /\ sheet = "stop"
            THEN /\ out' = f
                 /\ calls' = <<>>
                 /\ halt' = "credential"
                 /\ pc' = "stopped"
                 /\ UNCHANGED <<storeVars, procVars, histVars>>
            ELSE /\ out' = [f EXCEPT !.msg = h.msg]
                 /\ calls' = h.calls
                 /\ sheetAset' = h.sheet
                 /\ clientCached' = (clientCached \/ valid)
                 /\ cache' = IF h.clear THEN <<>> ELSE cache
                 /\ cacheAge' = IF h.clear THEN 0 ELSE cacheAge
                 /\ cleared' = (cleared \/ h.clear)
                 /\ written' = IF h.write # <<>> THEN h.write ELSE written
                 /\ pc' = "raw"
                 /\ UNCHANGED <<sheetTransaksi, halt, lastLoad>>
    /\ UNCHANGED <<df_transaksi, df_aset, pg>>

\* what the user may type into "Halaman"
MaxPageEntry == 4

PageEntries == 0..MaxPageEntry

\* Lines 254-261: the two checkboxes and show_dataframe_paginated
RawView ==
    /\ pc = "raw"
    /\ \E showT \in BOOLEAN, showA \in BOOLEAN, eT \in PageEntries, eA \in PageEntries :
         \* "Halaman" exists only under a ticked checkbox
         /\ ~showT => eT = 1
         /\ ~showA => eA = 1
         /\ out' = [step |-> "raw",
                    t |-> IF showT
                          THEN show_dataframe_paginated(df_transaksi, page_size_default, eT)
                          ELSE NoView,
                    a |-> IF showA
                          THEN show_dataframe_paginated(df_aset, page_size_default, eA)
                          ELSE NoView]
    /\ calls' = <<>>
    /\ pc' = "done"
    /\ UNCHANGED <<storeVars, procVars, histVars, df_transaksi, df_aset, halt, pg>>

\* the script run ends, at its last line or at st.stop()
EndRun ==
    /\ pc \in {"done", "stopped"}
    /\ pc' = "idle"
    /\ df_transaksi' = EmptyDataFrame
    /\ df_aset' = EmptyDataFrame
    /\ halt' = "none"
    /\ out' = NoOut
    /\ calls' = <<>>
    /\ UNCHANGED <<storeVars, procVars, histVars, pg>>

\* time passes between two script runs
Tick ==
    /\ pc = "idle"
    /\ cache # <<>>
    /\ cacheAge < TTL
    /\ cacheAge' = IF cacheAge + TickSeconds < TTL THEN cacheAge + TickSeconds ELSE TTL
    /\ UNCHANGED <<storeVars, clientCached, cache, runVars, histVars>>

\* the external spreadsheet editor renames an asset
ExternalEdit ==
    /\ pc = "idle"
    /\ \E r \in 2..Len(sheetAset) :
         sheetAset' = [sheetAset EXCEPT ![r] = [@ EXCEPT ![1] = Perak]]
    /\ sheetAset' # sheetAset
    /\ written' = <<>>
    /\ UNCHANGED <<sheetTransaksi, procVars, runVars, lastLoad, cleared>>

Next ==
    \/ LoadData
    \/ Guard
    \/ Metrics
    \/ FormTransaksi
    \/ FormUpdateAset
    \/ RawView
    \/ EndRun
    \/ Tick
    \/ ExternalEdit

Spec == Init /\ [][Next]_vars

(***************************************************************************)
(* load_data on worksheets whose numeric cell is any short text.           *)
(***************************************************************************)
MaxCellLen == 5

CellChars == {"0", "1", ",", "x"}

Cells == UNION {[1..n -> CellChars] : n \in 0..MaxCellLen}

InitCoerce ==
    /\ \E cell \in Cells :
         /\ sheetTransaksi = <<HeaderTransaksi,
                                <<Tanggal, "Pemasukan", "Gaji", "gaji", cell>>>>
         /\ sheetAset = <<HeaderAset, <<Kas, Tabungan, cell>>>>
    /\ clientCached = FALSE
    /\ cache = <<>>
    /\ cacheAge = 0
    /\ pc = "idle"
    /\ df_transaksi = EmptyDataFrame
    /\ df_aset = EmptyDataFrame
    /\ halt = "none"
    /\ out = NoOut
    /\ calls = <<>>
    /\ pg = NoPg
    /\ lastLoad = <<>>
    /\ cleared = FALSE
    /\ written = <<>>

SpecCoerce == InitCoerce /\ [][LoadData]_vars

(***************************************************************************)
(* The metrics block on any pair of small tables.                          *)
(***************************************************************************)
MaxMetricRows == 3

RowsTransaksi ==
    {<<Tanggal, "Pemasukan", "Gaji", "gaji", 5>>,
     <<Tanggal, "Pengeluaran", "Konsumsi", "makan", 3>>,
     <<Tanggal, "Transfer", "Lainnya", "pindah", 1>>}

RowsAset ==
    {<<Kas, Tabungan, 1>>, <<Kas, Tabungan, 2>>, <<Gold, Saham, 4>>,
     <<Emas, Emas, 8>>, <<Perak, Properti, 16>>}

\* the tables load_data can return with rows of `rows`: pd.DataFrame() after a
\* failed read, else the header with up to MaxMetricRows rows
Tables(header, rows) ==
    {EmptyDataFrame} \cup
    {DataFrame(data, header) : data \in UNION {[1..n -> rows] : n \in 0..MaxMetricRows}}

InitMetrics ==
    /\ sheetTransaksi = <<HeaderTransaksi>>
    /\ sheetAset = <<HeaderAset>>
    /\ clientCached = TRUE
    /\ cache = <<>>
    /\ cacheAge = 0
    /\ pc = "metrics"
    /\ df_transaksi \in Tables(HeaderTransaksi, RowsTransaksi)
    /\ df_aset \in Tables(HeaderAset, RowsAset)
    /\ ~DataKosong(df_transaksi, df_aset)
    /\ halt = "none"
    /\ out = [step |-> "guard"]
    /\ calls = <<>>
    /\ pg = NoPg
    /\ lastLoad = <<>>
    /\ cleared = FALSE
    /\ written = <<>>

SpecMetrics == InitMetrics /\ [][Metrics]_vars

(***************************************************************************)
(* show_dataframe_paginated on any table, page size and typed page.        *)
(***************************************************************************)
MaxPageRows == 45

PageSizes == {1, 7, page_size_default}

\* a table of n rows, the i-th holding i
TableOf(n) == DataFrame([i \in 1..n |-> <<Tanggal, "Pemasukan", "Gaji", "gaji", i>>],
                        HeaderTransaksi)

InitPage ==
    /\ sheetTransaksi = <<HeaderTransaksi>>
    /\ sheetAset = <<HeaderAset>>
    /\ clientCached = TRUE
    /\ cache = <<>>
    /\ cacheAge = 0
    /\ pc = "page"
    /\ df_transaksi = EmptyDataFrame
    /\ df_aset = EmptyDataFrame
    /\ halt = "none"
    /\ out = NoOut
    /\ calls = <<>>
    /\ \E n \in 0..MaxPageRows, s \in PageSizes, e \in PageEntries :
         pg = [df |-> TableOf(n), page_size |-> s, entry |-> e]
    /\ lastLoad = <<>>
    /\ cleared = FALSE
    /\ written = <<>>

\* show_dataframe_paginated(pg.df, pg.page_size) with pg.entry typed into "Halaman"
Paginate ==
    /\ pc = "page"
    /\ out' = [step |-> "page",
               view |-> show_dataframe_paginated(pg.df, pg.page_size, pg.entry)]
    /\ pc' = "done"
    /\ UNCHANGED <<storeVars, procVars, histVars, df_transaksi, df_aset, halt, calls, pg>>

SpecPage == InitPage /\ [][Paginate]_vars

(***************************************************************************)
(* Properties.                                                             *)
(***************************************************************************)
MsgTransaksiSaved  == "Transaksi berhasil disimpan!"
MsgTransaksiReject == "Harap isi deskripsi dan jumlah lebih dari 0."
MsgAsetUpdated     == "Nilai aset berhasil diperbarui!"
MsgAsetNotFound    == "Aset tidak ditemukan di Google Sheet."

Loaded == pc = "guard" /\ out.step = "load_data"

\* the first load_data() call after a successful write
LoadedAfterWrite == Loaded /\ out.after # <<>>

C1_Reflects(w) ==
    IF w.op = "append"
    THEN \E r \in 1..Len(df_transaksi.data) :
            df_transaksi.data[r] = [w.row EXCEPT ![5] = w.nilai]
    ELSE \E r \in 1..Len(df_aset.data) :
            df_aset.data[r][1] = w.aset /\ df_aset.data[r][3] = w.nilai

\* C1 as stated: the load_data() call that follows a successful append or update
\* returns tables that reflect it: the appended row is in the transaction table,
\* the asset that was chosen shows the new value.
C1_NextLoadReflectsWrite == LoadedAfterWrite => C1_Reflects(out.after[1])

\* C1 amended: the load_data() call that follows a successful append or update is
\* not served from the memoized tables, it reads the store again; when the read of
\* the written worksheet succeeds, the appended row is the last row of the
\* transaction table, or the row of the cell that find matched shows the new value;
\* when that read fails the table of that side is empty.
C1_NextLoadRereadsStore ==
    LoadedAfterWrite =>
        LET w == out.after[1] IN
        /\ ~out.hit
        /\ calls # <<>>
        /\ w.op = "append" =>
              IF out.t = "ok"
              THEN /\ df_transaksi.data # <<>>
                   /\ df_transaksi.data[Len(df_transaksi.data)]
                        = [w.row EXCEPT ![5] = w.nilai]
              ELSE df_transaksi = EmptyDataFrame
        /\ w.op = "update" =>
              IF out.a = "ok"
              THEN /\ Len(df_aset.data) >= w.cell[1] - 1
                   /\ df_aset.data[w.cell[1] - 1][3] = w.nilai
              ELSE df_aset = EmptyDataFrame

C1_Witness ==
    /\ LoadedAfterWrite
    /\ out.after[1].op = "update"
    /\ out.t = "ok"
    /\ out.a = "ok"

\* C2: a load_data() call made while the tables the previous call returned are
\* younger than the TTL, with no st.cache_data.clear() in between, returns those
\* tables and makes no store client call, whatever the store holds by then.
C2_LoadIdempotentWithinTTL ==
    [][(pc = "idle" /\ pc' # "idle" /\ lastLoad # <<>> /\ ~cleared /\ cacheAge < TTL)
       => /\ pc' = "guard"
          /\ df_transaksi' = lastLoad[1].t
          /\ df_aset' = lastLoad[1].a
          /\ calls' = <<>>]_vars

\* a memoized load, some time after the tables were computed, of an asset table
\* the store no longer holds
C2_Witness ==
    /\ Loaded
    /\ out.hit
    /\ cacheAge > 0
    /\ df_aset # EmptyDataFrame
    /\ \E r \in 1..Len(df_aset.data) : df_aset.data[r][1] # sheetAset[r + 1][1]

\* what a read that ended in `outcome` leaves in df: the worksheet's header and its
\* last limit_rows data rows, text cells as they are; or no table at all
C3_Side(outcome, df, values, numeric) ==
    IF outcome = "ok"
    THEN LET n    == Len(values) - 1
             kept == IF n <= limit_rows THEN n ELSE limit_rows
         IN /\ df.columns = Head(values)
            /\ Len(df.data) = kept
            /\ \A r \in 1..kept : \A k \in 1..Len(df.columns) :
                  k # numeric => df.data[r][k] = values[1 + (n - kept) + r][k]
    ELSE df = EmptyDataFrame

C3_FailedRead ==
    \/ out.step = "get_client"
    \/ out.step = "load_data" /\ ~out.hit /\ (out.t # "ok" \/ out.a # "ok")

\* C3 as stated: when a read fails at any stage, creating the client included,
\* load_data() still returns, with an empty table for the failed side and the
\* loaded table for the other, and the script run is not stopped.
C3_AnyFailureIsolated ==
    C3_FailedRead =>
        /\ pc = "guard"
        /\ halt = "none"
        /\ C3_Side(out.t, df_transaksi, sheetTransaksi, 5)
        /\ C3_Side(out.a, df_aset, sheetAset, 3)

\* C3 amended: when opening a worksheet or fetching its rows fails, load_data()
\* still returns, with an empty table for the failed side and the loaded table for
\* the other; when get_client fails the script run is stopped instead.
C3_SheetFailureIsolated ==
    /\ (out.step = "load_data" /\ ~out.hit) =>
          /\ pc = "guard"
          /\ halt = "none"
          /\ C3_Side(out.t, df_transaksi, sheetTransaksi, 5)
          /\ C3_Side(out.a, df_aset, sheetAset, 3)
    /\ out.step = "get_client" => (pc = "stopped" /\ halt = "credential")

C3_Witness ==
    /\ Loaded
    /\ ~out.hit
    /\ out.t = "WorksheetNotFound"
    /\ out.a = "ok"
    /\ df_transaksi = EmptyDataFrame
    /\ ~empty(df_aset)

C4_Submit ==
    pc = "form_update_aset" /\ out'.step = "form_update_aset" /\ out'.submitted

\* C4: a submitted update with nilai_baru <= 0, or whose asset name find matches
\* in no cell, calls no update_cell, leaves the store and the memoized tables as
\* they are, and reports no success; when find ran and matched nothing the message
\* is the "asset not found" one.
C4_UpdateRejected ==
    [][C4_Submit =>
        LET noMatch == find(sheetAset, out'.aset_dipilih) = <<>> IN
        /\ (out'.nilai_baru <= 0 \/ noMatch) =>
              /\ storeVars' = storeVars
              /\ cache' = cache
              /\ cacheAge' = cacheAge
              /\ cleared' = cleared
              /\ \A i \in 1..Len(calls') : calls'[i] # "update_cell"
              /\ out'.msg # MsgAsetUpdated
        /\ (noMatch /\ \E i \in 1..Len(calls') : calls'[i] = "find") =>
              out'.msg = MsgAsetNotFound]_vars

C4_Witness ==
    /\ pc = "raw"
    /\ out.step = "form_update_aset"
    /\ out.submitted
    /\ out.msg = MsgAsetNotFound
    /\ CacheHit

C5_Submit == pc = "form_transaksi" /\ out'.step = "form_transaksi" /\ out'.submitted

C5_Unchanged ==
    /\ storeVars' = storeVars
    /\ cache' = cache
    /\ cacheAge' = cacheAge
    /\ cleared' = cleared

C5_Appended ==
    /\ sheetTransaksi' = Append(sheetTransaksi,
          <<Tanggal, out'.jenis, out'.kategori, out'.deskripsi, str(out'.jumlah)>>)
    /\ sheetAset' = sheetAset
    /\ cache' = <<>>
    /\ cleared'

\* C5 as stated: a submitted transaction is rejected with the validation message,
\* with no store call and no invalidation, exactly when the description is empty
\* or the amount is <= 0; every other one appends its row and invalidates.
C5_AppendUnlessInvalid ==
    [][C5_Submit =>
        IF out'.deskripsi = "" \/ out'.jumlah <= 0
        THEN out'.msg = MsgTransaksiReject /\ calls' = <<>> /\ C5_Unchanged
        ELSE out'.msg # MsgTransaksiReject /\ C5_Appended]_vars

\* C5 amended: a submitted transaction is rejected with the validation message,
\* with no store call and no invalidation, exactly when the description is empty
\* or the amount is <= 0; every other one opens the worksheet and either appends
\* its row at the end, reports success and invalidates, or (the worksheet did not
\* open, append_row raised) reports the failure and changes nothing.
C5_AppendOrReportFailure ==
    [][C5_Submit =>
        IF out'.deskripsi = "" \/ out'.jumlah <= 0
        THEN out'.msg = MsgTransaksiReject /\ calls' = <<>> /\ C5_Unchanged
        ELSE /\ out'.msg # MsgTransaksiReject
             /\ calls' # <<>> /\ calls'[1] = "get_sheet"
             /\ IF out'.msg = MsgTransaksiSaved
                THEN C5_Appended
                ELSE C5_Unchanged]_vars

C5_Witness ==
    /\ pc = "form_update_aset"
    /\ out.step = "form_transaksi"
    /\ out.msg = MsgTransaksiSaved
    /\ Len(sheetTransaksi) = 3
    /\ cache = <<>>

BothEmpty == empty(df_transaksi) /\ empty(df_aset)

\* C6 as stated: when load_data() returned two empty tables the script run goes
\* on past the guard; only a credential failure stops a run.
C6_EmptyDataNotFatal ==
    /\ (out.step = "guard" /\ BothEmpty) => pc = "metrics"
    /\ pc = "stopped" => halt = "credential"

\* C6 amended: the guard stops the script run exactly when load_data() returned
\* two empty tables, so no later step of that run (the forms included) is reached
\* with both tables empty; a run is stopped by that or by a get_client failure.
C6_EmptyDataStopsRun ==
    /\ out.step = "guard" =>
          IF BothEmpty THEN pc = "stopped" /\ halt = "empty"
                       ELSE pc = "metrics" /\ halt = "none"
    /\ pc = "stopped" => halt \in {"credential", "empty"}
    /\ pc \in {"metrics", "form_transaksi", "form_update_aset", "raw", "done"}
          => ~BothEmpty

C6_Witness == pc = "stopped" /\ halt = "empty" /\ clientCached

\* the sum of column j over the rows of data whose column k is in S
C7_Total(data, k, S, j) ==
    LET f[i \in 0..Len(data)] ==
            IF i = 0 THEN 0
            ELSE f[i - 1] + (IF data[i][k] \in S THEN data[i][j] ELSE 0)
    IN f[Len(data)]

C7_Sums(m) ==
    /\ m.total_pemasukan = C7_Total(df_transaksi.data, 2, {"Pemasukan"}, 5)
    /\ m.total_pengeluaran = C7_Total(df_transaksi.data, 2, {"Pengeluaran"}, 5)
    /\ m.total_tabungan = C7_Total(df_aset.data, 2, {Tabungan}, 3)
    /\ m.total_investasi = C7_Total(df_aset.data, 2, {Saham, Emas}, 3)
    /\ m.total_aset = m.total_tabungan + m.total_investasi

\* C7 as stated: for every pair of loaded tables, an empty one included, the
\* metrics step produces the sums: those of an empty table are 0, those of the
\* other table are still produced.
C7_SumsForEveryPair ==
    out.step = "metrics" => (out.metrik.kind = "metrics" /\ C7_Sums(out.metrik))

\* C7 amended: when both tables are non-empty the metrics step produces the sums,
\* with total_aset = total_tabungan + total_investasi; when one of them is empty it
\* produces no sum at all and shows a warning.
C7_SumsWhenBothNonEmpty ==
    out.step = "metrics" =>
        IF ~empty(df_transaksi) /\ ~empty(df_aset)
        THEN out.metrik.kind = "metrics" /\ C7_Sums(out.metrik)
        ELSE out.metrik = [NoMetrik EXCEPT !.kind = "warning"]

C7_Witness ==
    /\ out.step = "metrics"
    /\ out.metrik.kind = "metrics"
    /\ out.metrik.total_tabungan > 0
    /\ out.metrik.total_investasi > 0
    /\ \E r \in 1..Len(df_aset.data) : df_aset.data[r][2] = Properti

\* C8: for a table of n rows, page size s and typed page p: no page and a "no
\* data" result when n = 0; else ceil(n/s) pages, p clamped to 1..ceil(n/s), the
\* rows (p-1)*s+1 .. min(p*s, n) in order, and that range and n reported.
C8_Pagination ==
    out.step = "page" =>
        LET n == Len(pg.df.data)
            s == pg.page_size
            v == out.view
        IN IF n = 0
           THEN v = [NoView EXCEPT !.kind = "no_data"]
           ELSE LET pages == CHOOSE k \in 1..n : k * s >= n /\ (k - 1) * s < n
                    p     == IF pg.entry < 1 THEN 1
                             ELSE IF pg.entry > pages THEN pages ELSE pg.entry
                    lo    == (p - 1) * s + 1
                    hi    == IF p * s < n THEN p * s ELSE n
                IN /\ v.kind = "page"
                   /\ v.total_pages = pages
                   /\ v.page = p
                   /\ v.rows = [i \in 1..(hi - lo + 1) |-> pg.df.data[lo + i - 1]]
                   /\ v.first = lo
                   /\ v.last = hi
                   /\ v.total_rows = n

\* 45 rows, 20 a page, page 4 typed: page 3 of 3, rows 41-45
C8_Witness ==
    /\ out.step = "page"
    /\ Len(pg.df.data) = 45
    /\ pg.page_size = 20
    /\ pg.entry = 4
    /\ out.view.total_pages = 3
    /\ out.view.page = 3
    /\ out.view.first = 41
    /\ out.view.last = 45
    /\ Len(out.view.rows) = 5

C9_IsPlain(cell) == cell # <<>> /\ \A i \in 1..Len(cell) : IsDigit(cell[i])

\* digits in groups of three after the first group: 1,000 or 10,000 or 1,000,000
C9_IsThousands(cell) ==
    /\ Len(cell) >= 5
    /\ IsDigit(cell[1])
    /\ \A i \in 1..Len(cell) :
          IF (Len(cell) - i) % 4 = 3 THEN cell[i] = "," ELSE IsDigit(cell[i])

C9_StripCommas(cell) == SelectSeq(cell, LAMBDA c : c # ",")

C9_Value(cell) ==
    IF C9_IsPlain(cell) THEN DecVal(cell)
    ELSE IF C9_IsThousands(cell) THEN DecVal(C9_StripCommas(cell))
    ELSE 0

\* C9: the tables load_data() returns hold, in "Jumlah" and "Nilai Sekarang", the
\* value of a plain numeral, the value of a numeral with thousands separators, and
\* 0 for any other cell.
C9_CoercedToValue ==
    Loaded =>
        /\ out.t = "ok" => df_transaksi.data[1][5] = C9_Value(sheetTransaksi[2][5])
        /\ out.a = "ok" => df_aset.data[1][3] = C9_Value(sheetAset[2][3])

C10_Updated ==
    pc = "form_update_aset" /\ out'.step = "form_update_aset" /\ out'.msg = MsgAsetUpdated

\* C10: a successful update of asset A to v writes v into column 3 of the first row
\* whose name cell is A and changes nothing else in either worksheet; no step of
\* the program removes a row.
C10_UpdatesNamedRow ==
    [][/\ C10_Updated =>
            LET named == {r \in 2..Len(sheetAset) : sheetAset[r][1] = out'.aset_dipilih}
            IN /\ named # {}
               /\ LET r0 == CHOOSE r \in named : \A o \in named : r <= o
                  IN sheetAset' = [sheetAset EXCEPT ![r0] =
                                      [@ EXCEPT ![3] = str(out'.nilai_baru)]]
               /\ sheetTransaksi' = sheetTransaksi
       /\ Len(sheetAset') >= Len(sheetAset)
       /\ Len(sheetTransaksi') >= Len(sheetTransaksi)]_vars

====
